---- MODULE Spec2Model ----
(***************************************************************************)
(* State-machine model of rdkit/Chem/EnumerateStereoisomers.py.            *)
(*                                                                         *)
(* Molecules live in a heap (a sequence of molecule values); variables     *)
(* such as m, tm and isomer hold references into it, so that Chem.Mol(x)   *)
(* (a copy) and plain aliasing are different things.  The generator        *)
(* function EnumerateStereoisomers is a coroutine: pc is the position of   *)
(* its body, and it only advances between a consumer pull (next()) and     *)
(* the following yield or return.                                          *)
(***************************************************************************)
EXTENDS Integers, Sequences, FiniteSets, TLC

\* ---- bounds ----
NumAtoms == 2
NumBonds == 1
MaxCap == 3
MaxSeed == 1
EmbedBits == 1

\* default of the maxIsomers argument
DefaultMaxIsomers == 1024

\* width of one word of the pseudo random generator (wide enough for
\* getrandbits(nCenters) with every atom and bond a center)
WordBits == NumAtoms + NumBonds + 1

Atoms == 1..NumAtoms
Bonds == 1..NumBonds

ChiralTypes == {"CHI_UNSPECIFIED", "CHI_TETRAHEDRAL_CW", "CHI_TETRAHEDRAL_CCW"}
BondStereos == {"STEREONONE", "STEREOANY", "STEREOCIS", "STEREOTRANS"}

RECURSIVE Pow2(_)
Pow2(n) == IF n <= 0 THEN 1 ELSE 2 * Pow2(n - 1)

\* bool(bitflag & (1 << i))
Bit(bitflag, i) == (bitflag \div Pow2(i)) % 2 = 1

VARIABLES
  heap,        \* the molecule objects; a reference is an index into heap
  m,           \* reference to the caller's molecule
  opts,        \* the StereoEnumerationOptions object passed to the call
  embedFail,   \* the embedding oracle: residues (mod 2^EmbedBits) of the seeds it fails on
  pc,          \* position of the caller / of the generator body
  tm,          \* reference held by the local tm (0: not yet bound)
  flippers,    \* the list returned by _getFlippers
  bitsource,   \* the index generator object
  rand,        \* the random.Random object used by the unique-random generator
  numIsomers,  \* local numIsomers
  bitflag,     \* loop variable of "for bitflag in bitsource"
  isomer,      \* reference held by the local isomer (0: not yet bound)
  out,         \* what the consumer has received so far: <<[mol, bits], ...>>
  pulled,      \* history: the indices yielded by bitsource in this run
  calls,       \* history: the randomSeed of every EmbedMolecule call of this run
  run,         \* 1: first enumeration; 2: repeated enumeration
  prev,        \* history: what the first enumeration pulled, whether it ran to its end, and its atom order
  pulls        \* history: the number of next() calls the consumer has made on this generator

vars == <<heap, m, opts, embedFail, pc, tm, flippers, bitsource, rand,
          numIsomers, bitflag, isomer, out, pulled, calls, run, prev, pulls>>

NoBits == -1

\* ---- molecules ----
\* One (GetDegree(), GetAtomicNum()) pair per atom.
AtomKeys == {<<1, 6>>, <<2, 6>>, <<1, 7>>}

\* A bond that carries a stereo state is one the detector would flag.
Molecules ==
  { mol \in [tag : [Atoms -> ChiralTypes], possible : [Atoms -> BOOLEAN],
             key : [Atoms -> AtomKeys], stereo : [Bonds -> BondStereos],
             potential : [Bonds -> BOOLEAN], conf : {FALSE}] :
      \A b \in Bonds : mol.stereo[b] # "STEREONONE" => mol.potential[b] }

\* The atom keys used where the seed is not what is examined: descending, so
\* that the atom order is not already the sorted order.
FixedKeys == [a \in Atoms |-> IF a = 1 THEN <<2, 6>> ELSE <<1, 6>>]

\* ---- the graph copy primitive: Chem.Mol(x) ----
\* (variant: the "copy" is the object itself)
CopyRefAlias(h, r) == r

\* the reference of the copy, and the heap after the copy
CopyRef(h, r) == Len(h) + 1
CopyHeap(h, r) == Append(h, h[r])

\* ---- StereoEnumerationOptions ----
RandSources ==
  {[kind |-> "none", v |-> 0]}
    \cup {[kind |-> "seed", v |-> s] : s \in 1..MaxSeed}
    \cup {[kind |-> "inst", v |-> s] : s \in 1..MaxSeed}

\* __init__: stores its four arguments, whatever they are
NewOptions(tryEmbedding, onlyUnassigned, maxIsomers, rnd) ==
  [tryEmbedding |-> tryEmbedding, onlyUnassigned |-> onlyUnassigned,
   maxIsomers |-> maxIsomers, rand |-> rnd]

\* the default argument of EnumerateStereoisomers, built when the module loads
DefaultOptions == NewOptions(FALSE, TRUE, DefaultMaxIsomers, [kind |-> "none", v |-> 0])

\* ---- flippers ----
\* _AtomFlipper.flip / _BondFlipper.flip on the object the flipper refers to
AtomFlip(mol, idx, flag) ==
  [mol EXCEPT !.tag[idx] = IF flag THEN "CHI_TETRAHEDRAL_CW" ELSE "CHI_TETRAHEDRAL_CCW"]

BondFlip(mol, idx, flag) ==
  [mol EXCEPT !.stereo[idx] = IF flag THEN "STEREOCIS" ELSE "STEREOTRANS"]

Flip(h, f, flag) ==
  [h EXCEPT ![f.mol] = IF f.kind = "atom" THEN AtomFlip(h[f.mol], f.idx, flag)
                                            ELSE BondFlip(h[f.mol], f.idx, flag)]

\* (variant: range(1, nCenters))
RECURSIVE ApplyFlipsFromOne(_, _, _, _)
ApplyFlipsFromOne(h, fl, k, i) ==
  IF i >= Len(fl) THEN h
  ELSE IF i = 0 THEN ApplyFlipsFromOne(h, fl, k, 1)
  ELSE ApplyFlipsFromOne(Flip(h, fl[i + 1], Bit(k, i)), fl, k, i + 1)

\* (variant: only the elements whose bit is set are flipped)
RECURSIVE ApplyFlipsSetOnly(_, _, _, _)
ApplyFlipsSetOnly(h, fl, k, i) ==
  IF i >= Len(fl) THEN h
  ELSE ApplyFlipsSetOnly(IF Bit(k, i) THEN Flip(h, fl[i + 1], TRUE) ELSE h, fl, k, i + 1)

\* for i in range(nCenters): flippers[i].flip(bool(bitflag & (1 << i)))
RECURSIVE ApplyFlips(_, _, _, _)
ApplyFlips(h, fl, k, i) ==
  IF i >= Len(fl) THEN h
  ELSE ApplyFlips(Flip(h, fl[i + 1], Bit(k, i)), fl, k, i + 1)

\* ---- detection ----
\* Chem.FindPotentialStereoBonds: marks, in place, the bonds without a stereo
\* state that can be cis/trans as STEREOANY
FindPotentialStereoBonds(mol) ==
  [mol EXCEPT !.stereo = [b \in Bonds |->
      IF mol.stereo[b] = "STEREONONE" /\ mol.potential[b] THEN "STEREOANY"
      ELSE mol.stereo[b]]]

\* (variant: onlyUnassigned is not consulted for atoms)
AtomEligibleAny(mol, o, a) == mol.possible[a]

AtomEligible(mol, o, a) ==
  /\ mol.possible[a]
  /\ (~o.onlyUnassigned \/ mol.tag[a] = "CHI_UNSPECIFIED")

\* (variant: the STEREONONE test is missing)
BondEligibleAny(mol, o, b) == ~o.onlyUnassigned \/ mol.stereo[b] = "STEREOANY"

BondEligible(mol, o, b) ==
  /\ mol.stereo[b] # "STEREONONE"
  /\ (~o.onlyUnassigned \/ mol.stereo[b] = "STEREOANY")

\* (variant: the bond loop comes before the atom loop)
GetFlippersBondsFirst(h, r, o) ==
  SelectSeq([b \in Bonds |-> [kind |-> "bond", idx |-> b, mol |-> r]],
            LAMBDA f : BondEligible(h[r], o, f.idx))
    \o SelectSeq([a \in Atoms |-> [kind |-> "atom", idx |-> a, mol |-> r]],
                 LAMBDA f : AtomEligible(h[r], o, f.idx))

\* the list _getFlippers returns for the (already annotated) molecule at r
GetFlippers(h, r, o) ==
  SelectSeq([a \in Atoms |-> [kind |-> "atom", idx |-> a, mol |-> r]],
            LAMBDA f : AtomEligible(h[r], o, f.idx))
    \o SelectSeq([b \in Bonds |-> [kind |-> "bond", idx |-> b, mol |-> r]],
                 LAMBDA f : BondEligible(h[r], o, f.idx))

\* ---- the random source ----
\* sorted(...) of a list of pairs (tuples compare lexicographically)
PairLess(x, y) == x[1] < y[1] \/ (x[1] = y[1] /\ x[2] < y[2])

RECURSIVE Insert(_, _)
Insert(s, x) ==
  IF s = <<>> THEN <<x>>
  ELSE IF PairLess(x, Head(s)) THEN <<x>> \o s
  ELSE <<Head(s)>> \o Insert(Tail(s), x)

RECURSIVE Sorted(_)
Sorted(s) == IF s = <<>> THEN <<>> ELSE Insert(Sorted(Tail(s)), Head(s))

\* hash(tuple(...)): depends on the elements and on their order
RECURSIVE HashTuple(_, _)
HashTuple(s, acc) ==
  IF s = <<>> THEN acc
  ELSE HashTuple(Tail(s), (acc * 31 + Head(s)[1] * 7 + Head(s)[2]) % Pow2(WordBits))

\* [(a.GetDegree(), a.GetAtomicNum()) for a in tm.GetAtoms()]
DegreeNumList(mol) == [a \in Atoms |-> mol.key[a]]

\* (variant: the list is hashed in atom order)
SeedOfUnsorted(mol) == HashTuple(DegreeNumList(mol), 1)

\* the seed taken when options.rand is None
SeedOf(mol) == HashTuple(Sorted(DegreeNumList(mol)), 1)

\* random.Random(seed): the generator state is a function of the seed
RandomOf(seed) == seed % Pow2(WordBits)

\* one step of the generator: a full-period congruential generator stands for
\* the Mersenne Twister (both return every word value within a period)
NextWord(s) == (5 * s + 3) % Pow2(WordBits)

\* getrandbits(k) returns the top k bits of the next word
GetRandBits(s, k) == NextWord(s) \div Pow2(WordBits - k)

\* ---- the embedding oracle ----
\* EmbedMolecule(ntm, randomSeed=bitflag) >= 0
EmbedMolecule(fail, seed) == (seed % Pow2(EmbedBits)) \notin fail

\* ---- initial state ----
NoSource == [kind |-> "none", nCenters |-> 0, maxIsomers |-> 0, val |-> 0, already_seen |-> {}]

InitRun ==
  /\ embedFail = {}
  /\ tm = 0
  /\ flippers = <<>>
  /\ bitsource = NoSource
  /\ rand = 0
  /\ numIsomers = 0
  /\ bitflag = NoBits
  /\ isomer = 0
  /\ out = <<>>
  /\ pulled = <<>>
  /\ calls = <<>>
  /\ pulls = 0

NoPrev == [pulled |-> <<>>, done |-> FALSE, keys |-> <<>>]

InitCaller ==
  /\ m = 1
  /\ opts = DefaultOptions
  /\ pc = "construct"
  /\ run = 1
  /\ prev = NoPrev
  /\ InitRun

Init ==
  /\ \E mol \in Molecules : mol.key = FixedKeys /\ heap = <<mol>>
  /\ InitCaller

\* ---- the caller ----
\* StereoEnumerationOptions(tryEmbedding, onlyUnassigned, maxIsomers, rand)
Construct ==
  /\ pc = "construct"
  /\ \E te \in BOOLEAN, ou \in BOOLEAN, mi \in (-1)..MaxCap, r \in RandSources :
       opts' = NewOptions(te, ou, mi, r)
  /\ pc' = "call"
  /\ UNCHANGED <<heap, m, embedFail, tm, flippers, bitsource, rand, numIsomers,
                 bitflag, isomer, out, pulled, calls, run, prev, pulls>>

\* (variant: a plain function, whose body starts to run at the call)
CallEager ==
  /\ pc \in {"construct", "call"}
  /\ pc' = "start"
  /\ UNCHANGED <<heap, m, opts, embedFail, tm, flippers, bitsource, rand,
                 numIsomers, bitflag, isomer, out, pulled, calls, run, prev, pulls>>

\* EnumerateStereoisomers(m) or EnumerateStereoisomers(m, options): creates the
\* generator; nothing of its body runs yet
Call ==
  /\ pc \in {"construct", "call"}
  /\ pc' = "created"
  /\ UNCHANGED <<heap, m, opts, embedFail, tm, flippers, bitsource, rand,
                 numIsomers, bitflag, isomer, out, pulled, calls, run, prev, pulls>>

\* (variant: there is no break)
CapReachedNever(o, n) == FALSE

\* (variant: the break comes one isomer late)
CapReachedLate(o, n) == o.maxIsomers # 0 /\ n > o.maxIsomers

\* numIsomers >= options.maxIsomers, with options.maxIsomers != 0: the break
CapReached(o, n) == o.maxIsomers # 0 /\ n >= o.maxIsomers

\* next(isomers): resumes the body where it is suspended
Pull ==
  /\ pc \in {"created", "yielded0", "yielded"}
  /\ IF pc = "created" THEN
       /\ pc' = "start"
       /\ UNCHANGED numIsomers
     ELSE IF pc = "yielded0" THEN
       /\ pc' = "done"
       /\ UNCHANGED numIsomers
     ELSE
       /\ numIsomers' = numIsomers + 1
       /\ pc' = IF CapReached(opts, numIsomers + 1) THEN "done" ELSE "iter"
  /\ pulls' = pulls + 1
  /\ UNCHANGED <<heap, m, opts, embedFail, tm, flippers, bitsource, rand,
                 bitflag, isomer, out, pulled, calls, run, prev>>

\* the consumer drops the generator while it is suspended
Close ==
  /\ pc \in {"created", "yielded0", "yielded"}
  /\ pc' = "closed"
  /\ UNCHANGED <<heap, m, opts, embedFail, tm, flippers, bitsource, rand,
                 numIsomers, bitflag, isomer, out, pulled, calls, run, prev, pulls>>

\* ---- the generator body ----
\* the outcomes of the embedding collaborator for this molecule
EmbedOracles(o) == IF o.tryEmbedding THEN SUBSET (0..(Pow2(EmbedBits) - 1)) ELSE {{}}

\* (variant: the empty list is not treated apart)
NoCentersNever(fl) == FALSE

\* if not nCenters
NoCenters(fl) == Len(fl) = 0

\* tm = Chem.Mol(m); flippers = _getFlippers(tm, options); the nCenters = 0 case
Start ==
  /\ pc = "start"
  /\ LET r == CopyRef(heap, m)
         h1 == CopyHeap(heap, m)
         h2 == [h1 EXCEPT ![r] = FindPotentialStereoBonds(h1[r])]
         fl == GetFlippers(h2, r, opts)
     IN /\ tm' = r
        /\ heap' = h2
        /\ flippers' = fl
        /\ IF NoCenters(fl)
           THEN /\ out' = Append(out, [mol |-> r, bits |-> NoBits])
                /\ pc' = "yielded0"
           ELSE /\ pc' = "choose"
                /\ UNCHANGED out
  /\ embedFail' \in EmbedOracles(opts)
  /\ UNCHANGED <<m, opts, bitsource, rand, numIsomers, bitflag, isomer,
                 pulled, calls, run, prev, pulls>>

\* options.maxIsomers == 0 or 2**nCenters <= options.maxIsomers
UseRange(o, nCenters) == o.maxIsomers = 0 \/ Pow2(nCenters) <= o.maxIsomers

\* the rand handed to _UniqueRandomBitsGenerator
RandFor(o, mol) ==
  IF o.rand.kind = "none" THEN RandomOf(SeedOf(mol))
  ELSE IF o.rand.kind = "inst" THEN o.rand.v
  ELSE RandomOf(o.rand.v)

ChooseSource ==
  /\ pc = "choose"
  /\ LET n == Len(flippers)
     IN IF UseRange(opts, n)
        THEN /\ bitsource' = [NoSource EXCEPT !.kind = "range", !.nCenters = n]
             /\ UNCHANGED rand
        ELSE /\ bitsource' = [NoSource EXCEPT !.kind = "random", !.nCenters = n,
                                              !.maxIsomers = opts.maxIsomers]
             /\ rand' = RandFor(opts, heap[tm])
  /\ numIsomers' = 0
  /\ pc' = "iter"
  /\ UNCHANGED <<heap, m, opts, embedFail, tm, flippers, bitflag, isomer, out,
                 pulled, calls, run, prev, pulls>>

\* (variant: the last index is left out)
RangeLimitShort(src) == Pow2(src.nCenters) - 1

\* _RangeBitsGenerator.__iter__: range(2**nCenters)
RangeLimit(src) == Pow2(src.nCenters)

RangeNext ==
  /\ pc = "iter"
  /\ bitsource.kind = "range"
  /\ IF bitsource.val < RangeLimit(bitsource)
     THEN /\ bitflag' = bitsource.val
          /\ bitsource' = [bitsource EXCEPT !.val = @ + 1]
          /\ pulled' = Append(pulled, bitsource.val)
          /\ pc' = "flip"
     ELSE /\ pc' = "done"
          /\ UNCHANGED <<bitflag, bitsource, pulled>>
  /\ UNCHANGED <<heap, m, opts, embedFail, tm, flippers, rand, numIsomers,
                 isomer, out, calls, run, prev, pulls>>

\* (variant: the loop gives up one value early)
LoopCondShort(src) == Cardinality(src.already_seen) < Pow2(src.nCenters) - 1

\* (variant: "while True")
LoopCondTrue(src) == TRUE

\* _UniqueRandomBitsGenerator.__iter__
LoopCond(src) == Cardinality(src.already_seen) < Pow2(src.nCenters)
AlreadySeen(src, bits) == bits \in src.already_seen

\* the loop ends: the generator is exhausted
RandomStop ==
  /\ pc = "iter"
  /\ bitsource.kind = "random"
  /\ ~LoopCond(bitsource)
  /\ pc' = "done"
  /\ UNCHANGED <<heap, m, opts, embedFail, tm, flippers, bitsource, rand,
                 numIsomers, bitflag, isomer, out, pulled, calls, run, prev, pulls>>

\* (variant: the generator built from a seed or from the molecule is stored
\* back into the options)
SharesRandAlways(o) == TRUE

\* rand = options.rand: the generator drawn from is the caller's own object
SharesRand(o) == o.rand.kind = "inst"

\* one pass of the loop: a draw, then either "continue" or "yield bits".
\* A caller-supplied Random instance is used as it is, so the draw advances
\* the object the options hold.
Draw ==
  /\ pc = "iter"
  /\ bitsource.kind = "random"
  /\ LoopCond(bitsource)
  /\ LET bits == GetRandBits(rand, bitsource.nCenters)
     IN /\ rand' = NextWord(rand)
        /\ opts' = IF SharesRand(opts)
                   THEN [opts EXCEPT !.rand.v = NextWord(rand)] ELSE opts
        /\ IF AlreadySeen(bitsource, bits)
           THEN UNCHANGED <<bitsource, bitflag, pulled, pc>>
           ELSE /\ bitsource' = [bitsource EXCEPT !.already_seen = @ \cup {bits}]
                /\ bitflag' = bits
                /\ pulled' = Append(pulled, bits)
                /\ pc' = "flip"
  /\ UNCHANGED <<heap, m, embedFail, tm, flippers, numIsomers, isomer, out,
                 calls, run, prev, pulls>>

\* for i in range(nCenters): flippers[i].flip(flag)
FlipAll ==
  /\ pc = "flip"
  /\ heap' = ApplyFlips(heap, flippers, bitflag, 0)
  /\ pc' = "copy"
  /\ UNCHANGED <<m, opts, embedFail, tm, flippers, bitsource, rand, numIsomers,
                 bitflag, isomer, out, pulled, calls, run, prev, pulls>>

\* isomer = Chem.Mol(tm)
MakeIsomer ==
  /\ pc = "copy"
  /\ isomer' = CopyRef(heap, tm)
  /\ heap' = CopyHeap(heap, tm)
  /\ pc' = "embed"
  /\ UNCHANGED <<m, opts, embedFail, tm, flippers, bitsource, rand, numIsomers,
                 bitflag, pulled, calls, out, run, prev, pulls>>

\* (variant: every embedding is started from the same seed)
EmbedSeedConst(bits) == 0

\* randomSeed=bitflag
EmbedSeed(bits) == bits

\* cid: the conformer id of the embedding, or 1 when embedding is not asked for
Cid(o, fail, seed) ==
  IF o.tryEmbedding THEN (IF EmbedMolecule(fail, seed) THEN 0 ELSE -1) ELSE 1

\* (variant: the result of the embedding is not looked at)
AcceptedAlways(cid) == TRUE

\* cid >= 0: the isomer is yielded
Accepted(cid) == cid >= 0

\* the embedding attempt and what follows it, up to the yield or the next pass
TryEmbed ==
  /\ pc = "embed"
  /\ LET cid == Cid(opts, embedFail, EmbedSeed(bitflag))
     IN /\ calls' = IF opts.tryEmbedding THEN Append(calls, EmbedSeed(bitflag)) ELSE calls
        /\ heap' = IF opts.tryEmbedding /\ cid >= 0
                   THEN [heap EXCEPT ![isomer].conf = TRUE] ELSE heap
        /\ IF Accepted(cid)
           THEN /\ out' = Append(out, [mol |-> isomer, bits |-> bitflag])
                /\ pc' = "yielded"
           ELSE /\ pc' = "iter"
                /\ UNCHANGED out
  /\ UNCHANGED <<m, opts, embedFail, tm, flippers, bitsource, rand, numIsomers,
                 bitflag, isomer, pulled, run, prev, pulls>>

Next ==
  \/ Construct
  \/ Call
  \/ Pull
  \/ Close
  \/ Start
  \/ ChooseSource
  \/ RangeNext
  \/ RandomStop
  \/ Draw
  \/ FlipAll
  \/ MakeIsomer
  \/ TryEmbed

Spec == Init /\ [][Next]_vars

\* ---- a second enumeration of the same structure ----
\* the same molecule with its atoms renumbered: atom a of the result is atom
\* perm[a] of mol
Permuted(mol, perm) ==
  [mol EXCEPT !.tag = [a \in Atoms |-> mol.tag[perm[a]]],
              !.possible = [a \in Atoms |-> mol.possible[perm[a]]],
              !.key = [a \in Atoms |-> mol.key[perm[a]]]]

AtomPermutations == {f \in [Atoms -> Atoms] : \A a \in Atoms : \E b \in Atoms : f[b] = a}

\* StereoEnumerationOptions(tryEmbedding, onlyUnassigned, maxIsomers): rand is None
ConstructNoRand ==
  /\ pc = "construct"
  /\ \E te \in BOOLEAN, ou \in BOOLEAN, mi \in (-1)..MaxCap :
       opts' = NewOptions(te, ou, mi, [kind |-> "none", v |-> 0])
  /\ pc' = "call"
  /\ UNCHANGED <<heap, m, embedFail, tm, flippers, bitsource, rand, numIsomers,
                 bitflag, isomer, out, pulled, calls, run, prev, pulls>>

\* EnumerateStereoisomers(m2, options) once the first generator is finished
\* with: m2 is the same structure, renumbered; the options object is the same
Rerun ==
  /\ run = 1
  /\ pc \in {"done", "closed"}
  /\ \E perm \in AtomPermutations : heap' = <<Permuted(heap[m], perm)>>
  /\ m' = 1
  /\ prev' = [pulled |-> pulled, done |-> (pc = "done"), keys |-> DegreeNumList(heap[m])]
  /\ run' = 2
  /\ pc' = "created"
  /\ embedFail' = {}
  /\ tm' = 0
  /\ flippers' = <<>>
  /\ bitsource' = NoSource
  /\ rand' = 0
  /\ numIsomers' = 0
  /\ bitflag' = NoBits
  /\ isomer' = 0
  /\ out' = <<>>
  /\ pulled' = <<>>
  /\ calls' = <<>>
  /\ pulls' = 0
  /\ UNCHANGED opts

\* two atoms, each a possible center or not, and one bond; every atom order
DetInit ==
  /\ \E mol \in Molecules :
       /\ \A a \in Atoms : mol.tag[a] = "CHI_UNSPECIFIED"
       /\ \A b \in Bonds : mol.stereo[b] = "STEREONONE"
       /\ heap = <<mol>>
  /\ InitCaller

DetNext ==
  \/ ConstructNoRand
  \/ Call
  \/ Pull
  \/ Close
  \/ Start
  \/ ChooseSource
  \/ RangeNext
  \/ RandomStop
  \/ Draw
  \/ FlipAll
  \/ MakeIsomer
  \/ TryEmbed
  \/ Rerun

DetSpec == DetInit /\ [][DetNext]_vars

\* ---- a consumer that keeps pulling ----
LiveInit ==
  /\ \E mol \in Molecules :
       /\ mol.key = FixedKeys
       /\ \A a \in Atoms : mol.tag[a] = "CHI_UNSPECIFIED"
       /\ \A b \in Bonds : mol.stereo[b] = "STEREONONE"
       /\ heap = <<mol>>
  /\ InitCaller

LiveNext ==
  \/ Construct
  \/ Call
  \/ Pull
  \/ Start
  \/ ChooseSource
  \/ RangeNext
  \/ RandomStop
  \/ Draw
  \/ FlipAll
  \/ MakeIsomer
  \/ TryEmbed

\* the interpreter runs the body up to the next yield, and the consumer asks
\* again after every result
LiveSpec == LiveInit /\ [][LiveNext]_vars /\ WF_vars(LiveNext)

TypeOK ==
  /\ pc \in {"construct", "call", "created", "start", "choose", "iter", "flip",
             "copy", "embed", "yielded0", "yielded", "done", "closed"}
  /\ m \in 1..Len(heap)
  /\ tm \in 0..Len(heap)
  /\ isomer \in 0..Len(heap)
  /\ \A i \in 1..Len(out) : out[i].mol \in 1..Len(heap)

\* ---- what the claims speak about ----
nCenters == Len(flippers)
OutBits == [i \in 1..Len(out) |-> out[i].bits]
Injective(seq) == \A i, j \in 1..Len(seq) : seq[i] = seq[j] => i = j
Min(a, b) == IF a <= b THEN a ELSE b
Specified(tag) == tag \in {"CHI_TETRAHEDRAL_CW", "CHI_TETRAHEDRAL_CCW"}
SpecifiedBond(st) == st \in {"STEREOCIS", "STEREOTRANS"}
SameStereo(x, y) == x.tag = y.tag /\ x.stereo = y.stereo
\* the annotated copy of the caller's molecule, before any flip
BaseGraph == FindPotentialStereoBonds(heap[m])

\* C1: with n >= 1 centers, no embedding, and maxIsomers = 0 or 2^n <= maxIsomers,
\* the results come for the indices 0, 1, 2, ... in this order, and a run
\* consumed to the end has emitted exactly 2^n of them.
C1_ExhaustiveEmitsAll ==
  (nCenters >= 1 /\ ~opts.tryEmbedding
     /\ (opts.maxIsomers = 0 \/ Pow2(nCenters) <= opts.maxIsomers))
  => /\ \A i \in 1..Len(out) : out[i].bits = i - 1
     /\ Len(out) <= Pow2(nCenters)
     /\ (pc = "done" => Len(out) = Pow2(nCenters))

C1_Witness ==
  /\ pc = "done" /\ ~opts.tryEmbedding /\ nCenters = 2
  /\ opts.maxIsomers = 0
  /\ OutBits = <<0, 1, 2, 3>>

\* C2: with 0 < maxIsomers < 2^n and no embedding, a run consumed to the end
\* has emitted exactly maxIsomers results, for pairwise distinct indices of
\* [0, 2^n).
C2_SampledEmitsCap ==
  (nCenters >= 1 /\ ~opts.tryEmbedding
     /\ 0 < opts.maxIsomers /\ opts.maxIsomers < Pow2(nCenters))
  => /\ Injective(OutBits)
     /\ \A i \in 1..Len(out) : out[i].bits \in 0..(Pow2(nCenters) - 1)
     /\ Len(out) <= opts.maxIsomers
     /\ (pc = "done" => Len(out) = opts.maxIsomers)

C2_Witness ==
  /\ pc = "done" /\ ~opts.tryEmbedding /\ nCenters = 3
  /\ opts.maxIsomers = 3 /\ Len(out) = 3

\* C3: in unique-random mode no index is yielded twice by the index generator
\* and at most min(maxIsomers, 2^n) results are emitted.
C3_UniqueAndCapped ==
  bitsource.kind = "random"
  => /\ Injective(pulled)
     /\ Len(out) <= Min(opts.maxIsomers, Pow2(nCenters))

\* C4 (as stated): with tryEmbedding, for any n >= 0, every emitted result is
\* a candidate on which the oracle was called and succeeded.
C4_EveryResultEmbedded ==
  opts.tryEmbedding
  => \A i \in 1..Len(out) :
       /\ \E j \in 1..Len(calls) : calls[j] = out[i].bits
       /\ EmbedMolecule(embedFail, out[i].bits)
       /\ heap[out[i].mol].conf

\* C4 (amended): with tryEmbedding and n >= 1, every emitted result is a
\* candidate on which the oracle was called and succeeded; with n = 0 the one
\* result is emitted without any oracle call; a candidate whose oracle call
\* failed is never emitted and is not counted.
C4_ResultsEmbeddedWhenCenters ==
  opts.tryEmbedding
  => /\ nCenters >= 1 =>
          \A i \in 1..Len(out) :
            /\ \E j \in 1..Len(calls) : calls[j] = out[i].bits
            /\ EmbedMolecule(embedFail, out[i].bits)
            /\ heap[out[i].mol].conf
     /\ nCenters = 0 => calls = <<>>
     /\ \A j \in 1..Len(calls) :
          ~EmbedMolecule(embedFail, calls[j]) =>
             \A i \in 1..Len(out) : out[i].bits # calls[j]
     /\ numIsomers <= Len(out)

C4_Witness ==
  /\ opts.tryEmbedding /\ nCenters >= 2 /\ pc = "done"
  /\ Len(out) = 2
  /\ \E j \in 1..Len(calls) : ~EmbedMolecule(embedFail, calls[j])

\* C5: when the eligible list is empty, whatever the options, exactly one
\* result is emitted, with the stereo of the input on every atom and bond, no
\* index is pulled, and the run then ends.
C5_DegenerateYieldsInput ==
  (tm # 0 /\ nCenters = 0)
  => /\ Len(out) = 1
     /\ SameStereo(heap[out[1].mol], heap[m])
     /\ pulled = <<>>
     /\ pc \in {"yielded0", "done", "closed"}

C5_Witness ==
  /\ tm # 0 /\ nCenters = 0 /\ pc = "done"
  /\ opts.tryEmbedding /\ ~opts.onlyUnassigned /\ opts.maxIsomers = 1
  /\ \E a \in Atoms : heap[m].tag[a] = "CHI_TETRAHEDRAL_CW"

\* C6: no step of a run changes the chirality tag of an atom or the stereo
\* state of a bond of the caller's molecule.
C6_InputNeverMutated ==
  [][/\ m' = m
     /\ heap'[m].tag = heap[m].tag
     /\ heap'[m].stereo = heap[m].stereo]_vars

C6_Witness ==
  /\ pc = "closed" /\ Len(out) = 2
  /\ heap[tm].tag # heap[m].tag
  /\ heap[tm].stereo # heap[m].stereo

\* C7: every emitted isomer has CW/CCW on every eligible atom and cis/trans on
\* every eligible bond, and equals the annotated base graph on every other
\* atom and bond; with onlyUnassigned, what was specified in the input is kept.
C7_OnlyEligibleChanged ==
  \A i \in 1..Len(out) :
    LET iso == heap[out[i].mol]
    IN /\ \A a \in Atoms :
            IF BaseGraph.possible[a]
               /\ (~opts.onlyUnassigned \/ BaseGraph.tag[a] = "CHI_UNSPECIFIED")
            THEN Specified(iso.tag[a])
            ELSE iso.tag[a] = BaseGraph.tag[a]
       /\ \A b \in Bonds :
            IF BaseGraph.stereo[b] # "STEREONONE"
               /\ (~opts.onlyUnassigned \/ BaseGraph.stereo[b] = "STEREOANY")
            THEN SpecifiedBond(iso.stereo[b])
            ELSE iso.stereo[b] = BaseGraph.stereo[b]
       /\ opts.onlyUnassigned =>
            /\ \A a \in Atoms : Specified(heap[m].tag[a]) => iso.tag[a] = heap[m].tag[a]
            /\ \A b \in Bonds :
                 SpecifiedBond(heap[m].stereo[b]) => iso.stereo[b] = heap[m].stereo[b]

C7_Witness ==
  /\ Len(out) = 2 /\ opts.onlyUnassigned /\ nCenters = 1
  /\ \E a \in Atoms : heap[m].possible[a] /\ heap[m].tag[a] = "CHI_TETRAHEDRAL_CCW"
  /\ \E b \in Bonds : heap[m].stereo[b] = "STEREONONE" /\ heap[tm].stereo[b] # "STEREONONE"
  /\ heap[out[1].mol].stereo # heap[out[2].mol].stereo

\* C8: with rand = None, a second run on the same structure, its atoms
\* renumbered or not, with the same options, pulls the same indices in the same
\* order: the two sequences agree as far as both go, and are equal when both
\* runs were consumed to the end without embedding.
C8_SameSequenceOnRerun ==
  (run = 2 /\ opts.rand.kind = "none")
  => /\ \A i \in 1..Min(Len(pulled), Len(prev.pulled)) : pulled[i] = prev.pulled[i]
     /\ (pc = "done" /\ prev.done /\ ~opts.tryEmbedding) => pulled = prev.pulled

C8_Witness ==
  /\ run = 2 /\ opts.rand.kind = "none" /\ pc = "done" /\ prev.done
  /\ bitsource.kind = "random"
  /\ Len(pulled) = 3
  /\ pulled = prev.pulled
  /\ prev.keys # DegreeNumList(heap[m])

\* C9: in unique-random mode a run whose consumer keeps pulling comes to its
\* end, and if it ends with fewer than maxIsomers results then the index
\* generator has returned every value of [0, 2^n).
C9_SampledRunTerminates ==
  (bitsource.kind = "random")
    ~> (pc = "done"
        /\ (Len(out) < opts.maxIsomers
              => Cardinality(bitsource.already_seen) = Pow2(nCenters)))

C9_Witness ==
  /\ pc = "done" /\ bitsource.kind = "random" /\ opts.tryEmbedding
  /\ out = <<>> /\ nCenters = 2 /\ Len(pulled) = 4
  /\ opts.maxIsomers = 3

\* C10: an options object with a negative maxIsomers does not come to exist, so
\* no run emits a result under a negative cap.
C10_NegativeCapRejected ==
  opts.maxIsomers < 0 => out = <<>>

\* ---- the eligible elements and the candidate of an index, as the claims
\* ---- describe them
Running == {"start", "choose", "iter", "flip", "copy", "embed"}
Suspended == {"created", "yielded0", "yielded"}
Last(seq) == seq[Len(seq)]
AtomIsEligible(a) ==
  BaseGraph.possible[a] /\ (~opts.onlyUnassigned \/ BaseGraph.tag[a] = "CHI_UNSPECIFIED")
BondIsEligible(b) ==
  BaseGraph.stereo[b] # "STEREONONE"
    /\ (~opts.onlyUnassigned \/ BaseGraph.stereo[b] = "STEREOANY")
\* position in the list: atoms in ascending index, then bonds in ascending index
AtomPosition(a) == Cardinality({x \in Atoms : x < a /\ AtomIsEligible(x)})
BondPosition(b) ==
  Cardinality({x \in Atoms : AtomIsEligible(x)})
    + Cardinality({y \in Bonds : y < b /\ BondIsEligible(y)})
HasBit(k, i) == (k \div Pow2(i)) % 2 = 1
ExpectedTags(k) ==
  [a \in Atoms |->
     IF AtomIsEligible(a)
     THEN (IF HasBit(k, AtomPosition(a)) THEN "CHI_TETRAHEDRAL_CW" ELSE "CHI_TETRAHEDRAL_CCW")
     ELSE BaseGraph.tag[a]]
ExpectedStereos(k) ==
  [b \in Bonds |->
     IF BondIsEligible(b)
     THEN (IF HasBit(k, BondPosition(b)) THEN "STEREOCIS" ELSE "STEREOTRANS")
     ELSE BaseGraph.stereo[b]]
ElementsOf(fl) == {<<fl[i].kind, fl[i].idx>> : i \in 1..Len(fl)}

\* a step taken while the generator is suspended does no work of the body
SuspendedIdle ==
  pc \in Suspended
    => (heap' = heap /\ pulled' = pulled /\ calls' = calls /\ out' = out)

\* C11: nothing of the body runs before the first next(); while the generator
\* is suspended no index is pulled, no flip is applied and no embedding is
\* made; every piece of work belongs to the one request being served; and when
\* the generator is suspended (or dropped) after its k-th result, the consumer
\* has asked k times and the last index pulled is the one of that result.
C11_PullDriven ==
  [](/\ (tm # 0 \/ pulled # <<>> \/ calls # <<>> \/ out # <<>>) => pulls >= 1
     /\ pc \in Running => pulls = Len(out) + 1
     /\ pc \in {"yielded0", "yielded"} => pulls = Len(out)
     /\ (pc \in {"yielded", "closed"} /\ pulled # <<>>)
           => (out # <<>> /\ Last(pulled) = Last(out).bits))
    /\ [][SuspendedIdle]_vars

C11_Witness ==
  /\ pc = "closed" /\ nCenters = 3 /\ opts.tryEmbedding
  /\ pulls = 2 /\ Len(out) = 2 /\ Len(pulled) = 3
  /\ Last(pulled) = Last(out).bits

\* C12 (as stated): no step of a run changes the options object, the state
\* of the random source it holds included.
C12_OptionsUntouched ==
  [][pc # "construct" => opts' = opts]_vars

\* C12 (amended): no step of a run changes tryEmbedding, onlyUnassigned,
\* maxIsomers or which random source the options hold; with rand = None or a
\* seed the options object is unchanged altogether; a caller-supplied generator
\* instance is the object drawn from, and only its state advances.
C12_OptionsFieldsKept ==
  [][pc # "construct"
       => /\ opts'.tryEmbedding = opts.tryEmbedding
          /\ opts'.onlyUnassigned = opts.onlyUnassigned
          /\ opts'.maxIsomers = opts.maxIsomers
          /\ opts'.rand.kind = opts.rand.kind
          /\ (opts.rand.kind # "inst" => opts' = opts)
          /\ (opts' # opts => opts'.rand.v = rand')]_vars

C12_Witness ==
  /\ pc = "done" /\ bitsource.kind = "random" /\ opts.rand.kind = "seed"
  /\ Len(pulled) = 3 /\ opts.rand.v # rand

\* C13: with maxIsomers # 0, after the emission that brings the number of
\* results to maxIsomers (or beyond), no further index is pulled, no flip is
\* applied, no embedding is made and nothing more is emitted; the only steps
\* left are the next() that ends the sequence, or dropping the generator.
C13_StopAtCap ==
  [][(opts.maxIsomers # 0 /\ out # <<>> /\ Len(out) >= opts.maxIsomers)
       => /\ pulled' = pulled /\ calls' = calls /\ heap' = heap /\ out' = out
          /\ pc \in {"yielded0", "yielded", "done", "closed"}
          /\ pc' \in {"done", "closed"}]_vars

C13_Witness ==
  /\ pc = "done" /\ opts.maxIsomers = 2 /\ Len(out) = 2 /\ nCenters = 3
  /\ opts.tryEmbedding /\ Len(pulled) = 3

\* C14: the list is the eligible atoms in ascending index followed by the
\* eligible bonds in ascending index, and in the result for index k element i
\* is CW (cis) iff bit i of k is 1 and CCW (trans) iff bit i of k is 0.
C14_BitToElement ==
  /\ tm # 0 =>
       /\ \A a \in Atoms : AtomIsEligible(a) =>
            (flippers[AtomPosition(a) + 1].kind = "atom"
               /\ flippers[AtomPosition(a) + 1].idx = a)
       /\ \A b \in Bonds : BondIsEligible(b) =>
            (flippers[BondPosition(b) + 1].kind = "bond"
               /\ flippers[BondPosition(b) + 1].idx = b)
  /\ \A i \in 1..Len(out) :
       out[i].bits # NoBits =>
         LET iso == heap[out[i].mol]
             k == out[i].bits
         IN /\ \A a \in Atoms : AtomIsEligible(a) =>
                 /\ iso.tag[a] = "CHI_TETRAHEDRAL_CW" <=> HasBit(k, AtomPosition(a))
                 /\ iso.tag[a] = "CHI_TETRAHEDRAL_CCW" <=> ~HasBit(k, AtomPosition(a))
            /\ \A b \in Bonds : BondIsEligible(b) =>
                 /\ iso.stereo[b] = "STEREOCIS" <=> HasBit(k, BondPosition(b))
                 /\ iso.stereo[b] = "STEREOTRANS" <=> ~HasBit(k, BondPosition(b))

C14_Witness ==
  /\ nCenters = 3 /\ out # <<>> /\ Last(out).bits = 5
  /\ heap[Last(out).mol].tag = <<"CHI_TETRAHEDRAL_CW", "CHI_TETRAHEDRAL_CCW">>
  /\ heap[Last(out).mol].stereo = <<"STEREOCIS">>

\* C15: the list holds, once each, exactly the atoms flagged as possible
\* centers that are unspecified or taken regardless (onlyUnassigned false), and
\* the bonds with a stereo state other than none that are "any" or taken
\* regardless; what onlyUnassigned = true selects is among what
\* onlyUnassigned = false selects.
C15_EligibleList ==
  tm # 0 =>
    /\ ElementsOf(flippers) =
         {<<"atom", a>> : a \in {x \in Atoms : AtomIsEligible(x)}}
           \cup {<<"bond", b>> : b \in {y \in Bonds : BondIsEligible(y)}}
    /\ Cardinality(ElementsOf(flippers)) = Len(flippers)
    /\ ElementsOf(GetFlippers(<<BaseGraph>>, 1, [opts EXCEPT !.onlyUnassigned = TRUE]))
         \subseteq ElementsOf(GetFlippers(<<BaseGraph>>, 1, [opts EXCEPT !.onlyUnassigned = FALSE]))

C15_Witness ==
  /\ tm # 0 /\ ~opts.onlyUnassigned /\ nCenters = 1
  /\ \E a \in Atoms : heap[m].possible[a] /\ heap[m].tag[a] = "CHI_TETRAHEDRAL_CW"
  /\ \E a \in Atoms : ~heap[m].possible[a]
  /\ \E b \in Bonds : heap[m].stereo[b] = "STEREONONE" /\ ~heap[m].potential[b]

\* C16 (as stated): before every candidate is built the base copy has its
\* stereo state of right after detection.
C16_BaseCopyKept ==
  pc = "flip" => SameStereo(heap[tm], BaseGraph)

\* C16 (amended): the flips of an index are applied to the base copy itself,
\* which is copied afterwards; so before a candidate is built the base copy
\* has, on the eligible elements, the configuration of the index pulled before
\* (that of right after detection before the first), and on every other atom
\* and bond its state of right after detection.
C16_BaseCopyHoldsPreviousIndex ==
  pc = "flip" =>
    IF Len(pulled) = 1 THEN SameStereo(heap[tm], BaseGraph)
    ELSE /\ heap[tm].tag = ExpectedTags(pulled[Len(pulled) - 1])
         /\ heap[tm].stereo = ExpectedStereos(pulled[Len(pulled) - 1])

C16_Witness ==
  /\ pc = "flip" /\ Len(pulled) = 3
  /\ ~SameStereo(heap[tm], BaseGraph)
  /\ \E a \in Atoms : ~AtomIsEligible(a) /\ Specified(heap[tm].tag[a])

\* C17: the stereo of the candidate built for index k, emitted or not, is the
\* annotated base graph with the configuration of k on the eligible elements,
\* whatever indices came before it.
C17_CandidateOfIndexOnly ==
  /\ \A i \in 1..Len(out) :
       out[i].bits # NoBits =>
         /\ heap[out[i].mol].tag = ExpectedTags(out[i].bits)
         /\ heap[out[i].mol].stereo = ExpectedStereos(out[i].bits)
  /\ pc = "embed" =>
       /\ heap[isomer].tag = ExpectedTags(bitflag)
       /\ heap[isomer].stereo = ExpectedStereos(bitflag)

C17_Witness ==
  /\ bitsource.kind = "random" /\ Len(out) = 2 /\ Len(pulled) = 3
  /\ pulled[1] > pulled[2] /\ pulled[2] < pulled[3]
  /\ Last(out).bits = pulled[3]

\* C18: no step changes which results have been emitted, nor the chirality
\* tag of an atom or the stereo state of a bond of an emitted result.
C18_EmittedNeverMutated ==
  [][\A i \in 1..Len(out) :
       /\ Len(out') >= i /\ out'[i] = out[i]
       /\ heap'[out[i].mol].tag = heap[out[i].mol].tag
       /\ heap'[out[i].mol].stereo = heap[out[i].mol].stereo]_vars

C18_Witness ==
  /\ pc = "done" /\ Len(out) = 3
  /\ ~SameStereo(heap[out[1].mol], heap[tm])
  /\ ~SameStereo(heap[out[1].mol], heap[out[2].mol])

\* C19: with tryEmbedding, the embedding calls made are, in order, one per
\* index pulled, each with that index as its seed; only the index being worked
\* on may still be without its call.
C19_OneCallPerIndex ==
  opts.tryEmbedding =>
    /\ Len(calls) <= Len(pulled)
    /\ Len(pulled) <= Len(calls) + 1
    /\ \A j \in 1..Len(calls) : calls[j] = pulled[j]
    /\ pc \notin {"flip", "copy", "embed"} => calls = pulled

C19_Witness ==
  /\ opts.tryEmbedding /\ pc = "done" /\ nCenters = 2
  /\ calls = pulled /\ Len(calls) = 4 /\ Len(out) = 2
  /\ calls # <<0, 1, 2, 3>>

\* C20 (as stated): a finished run with maxIsomers # 0 and fewer than
\* maxIsomers results has pulled every index of [0, 2^n) exactly once, and its
\* results are exactly the candidates whose embedding succeeded.
C20_ExhaustionCoversAll ==
  (pc = "done" /\ opts.maxIsomers # 0 /\ Len(out) < opts.maxIsomers)
  => /\ Injective(pulled)
     /\ {pulled[i] : i \in 1..Len(pulled)} = 0..(Pow2(nCenters) - 1)
     /\ OutBits = SelectSeq(pulled,
                     LAMBDA k : ~opts.tryEmbedding \/ EmbedMolecule(embedFail, k))

\* C20 (amended): the same for a molecule with n >= 1 eligible elements; with
\* n = 0 the run ends after its one result without any index pulled.
C20_ExhaustionCoversAllWhenCenters ==
  (pc = "done" /\ opts.maxIsomers # 0 /\ Len(out) < opts.maxIsomers)
  => IF nCenters >= 1
     THEN /\ Injective(pulled)
          /\ {pulled[i] : i \in 1..Len(pulled)} = 0..(Pow2(nCenters) - 1)
          /\ OutBits = SelectSeq(pulled,
                          LAMBDA k : ~opts.tryEmbedding \/ EmbedMolecule(embedFail, k))
     ELSE pulled = <<>> /\ calls = <<>> /\ Len(out) = 1

C20_Witness ==
  /\ pc = "done" /\ bitsource.kind = "random" /\ opts.maxIsomers = 3
  /\ nCenters = 2 /\ Len(out) = 2 /\ Len(pulled) = 4

====
